---- MODULE Spec2Model ----
(***************************************************************************)
(* Open1722: the IEEE 1722 Common Header accessors (src/avtp/CommonHeader.c)*)
(* and the ACF-CAN listener loop (examples/acf-can/linux/acf-can-listener.c)*)
(*                                                                         *)
(* TLC integers are 32 bit signed, so C values wider than 31 bits are kept  *)
(* as tuples of 16-bit limbs, most significant limb first: a uint32_t is    *)
(* <<hi, lo>>, a uint64_t is <<w3, w2, w1, w0>>.                           *)
(***************************************************************************)
EXTENDS Integers, Sequences, FiniteSets, TLC

VARIABLES
    \* ---- Common Header accessors ----
    hdr,            \* the first quadlet of a PDU: 4 bytes in network order
    val,            \* the uint32_t the legacy getter's output pointer refers to
    last,           \* the last accessor call: its arguments and its results
    \* ---- listener (main) ----
    pc,             \* position of main: "socket", "cansetup", "recv", "write", "exit"
    status,         \* exit status of the process, -1 while it runs
    fd_open,        \* the transport socket fd is open
    use_udp,        \* static use_udp
    can_variant,    \* static can_variant
    pdu,            \* uint8_t pdu[MAX_ETH_PDU_SIZE], in PDU cells
    pdu_length,     \* uint16_t pdu_length
    num_can_msgs,   \* uint8_t num_can_msgs
    exp_cf_seqnum,  \* uint8_t exp_cf_seqnum
    exp_udp_seqnum, \* uint32_t exp_udp_seqnum, <<hi, lo>>
    can_frames,     \* frame_t can_frames[MAX_CAN_FRAMES_IN_ACF]
    i,              \* the index of the write loop
    \* ---- history of the run (observers, not program state) ----
    start,          \* the counters' values when the observed window starts
    nrecv,          \* PDUs received (recv succeeded) in the window
    bus,            \* write attempts on the CAN socket for the current PDU
    call,           \* what the last avtp_to_can call was handed and returned
    prev            \* the same, for the call before it

vars == <<hdr, val, last, pc, status, fd_open, use_udp, can_variant, pdu,
          pdu_length, num_can_msgs, exp_cf_seqnum, exp_udp_seqnum, can_frames,
          i, start, nrecv, bus, call, prev>>

hdrVars == <<hdr, val, last>>

mainVars == <<pc, status, fd_open, use_udp, can_variant, pdu, pdu_length,
              num_can_msgs, exp_cf_seqnum, exp_udp_seqnum, can_frames, i,
              start, nrecv, bus, call, prev>>

----------------------------------------------------------------------------
(* Fixed-width integers *)

Pow2(n) == 2 ^ n

U64Zero == <<0, 0, 0, 0>>

\* bit k (0 = least significant) of a uint64_t
U64Bit(v, k) == (v[4 - (k \div 16)] \div Pow2(k % 16)) % 2

\* the uint64_t whose bit k is f[k]
RECURSIVE LimbOf(_, _, _)
LimbOf(f, limb, n) ==
    IF n = 0 THEN 0
    ELSE 2 * LimbOf(f, limb, n - 1) + f[16 * limb + 16 - n]

\* (uint32_t) of a uint64_t
NarrowU32(v) == <<v[3], v[4]>>

\* uint32_t -> uint64_t
WidenU32(w) == <<0, 0, w[1], w[2]>>

\* (uint8_t) of a uint64_t
NarrowU8(v) == v[4] % 256

\* uint32_t ++
IncU32(w) ==
    IF w[2] < 65535 THEN <<w[1], w[2] + 1>>
    ELSE <<(w[1] + 1) % 65536, 0>>

\* uint8_t ++
IncU8(b) == (b + 1) % 256

\* ssize_t -> uint16_t
ToU16(r) == r % 65536

----------------------------------------------------------------------------
(* Field codec engine: Avtp_GetField / Avtp_SetField (avtp/Utils.c)        *)

\* bit p of the buffer, counted from the most significant bit of byte 0
BufBit(buf, p) == (buf[(p \div 8) + 1] \div Pow2(7 - (p % 8))) % 2

\* first bit position of a field, counted from the start of the buffer
FieldStart(d) == d.quadlet * 32 + d.offset

\* bit k (0 = least significant) of the field's value as it lies in the buffer
FieldBit(buf, d, k) ==
    IF k < d.bits THEN BufBit(buf, FieldStart(d) + d.bits - 1 - k) ELSE 0

U64From(f) == <<LimbOf(f, 3, 16), LimbOf(f, 2, 16), LimbOf(f, 1, 16), LimbOf(f, 0, 16)>>

\* the value fits the field: no bit at or above the field's width is set
FitsField(d, value) == \A k \in d.bits .. 63 : U64Bit(value, k) = 0

Avtp_GetField(fieldDescriptors, numFields, buf, field) ==
    IF field >= numFields THEN U64Zero
    ELSE LET d == fieldDescriptors[field + 1]
         IN  U64From([k \in 0 .. 63 |-> FieldBit(buf, d, k)])

\* bit p of the buffer after the field has been written
WrittenBit(buf, d, value, p) ==
    IF p >= FieldStart(d) /\ p < FieldStart(d) + d.bits
    THEN U64Bit(value, FieldStart(d) + d.bits - 1 - p)
    ELSE BufBit(buf, p)

RECURSIVE WrittenByte(_, _, _, _, _)
WrittenByte(buf, d, value, b, n) ==
    IF n = 0 THEN 0
    ELSE 2 * WrittenByte(buf, d, value, b, n - 1) + WrittenBit(buf, d, value, 8 * b + n - 1)

Avtp_SetField(fieldDescriptors, numFields, buf, field, value) ==
    IF field >= numFields THEN [res |-> "InvalidField", pdu |-> buf]
    ELSE LET d == fieldDescriptors[field + 1]
         IN  IF ~FitsField(d, value) THEN [res |-> "ValueOutOfRange", pdu |-> buf]
             ELSE [res |-> "Ok",
                   pdu |-> [b \in 1 .. Len(buf) |-> WrittenByte(buf, d, value, b - 1, 8)]]

----------------------------------------------------------------------------
(* src/avtp/CommonHeader.c *)

AVTP_COMMON_HEADER_FIELD_SUBTYPE == 0
AVTP_COMMON_HEADER_FIELD_H == 1
AVTP_COMMON_HEADER_FIELD_VERSION == 2
AVTP_COMMON_HEADER_FIELD_MAX == 3

EINVAL == 22

\* the Version field placed one bit early, over H
Avtp_CommonHeaderFieldDesc_VersionAt8 ==
    << [quadlet |-> 0, offset |-> 0, bits |-> 8],
       [quadlet |-> 0, offset |-> 8, bits |-> 1],
       [quadlet |-> 0, offset |-> 8, bits |-> 3] >>

Avtp_CommonHeaderFieldDesc ==
    << [quadlet |-> 0, offset |-> 0, bits |-> 8],
       [quadlet |-> 0, offset |-> 8, bits |-> 1],
       [quadlet |-> 0, offset |-> 9, bits |-> 3] >>

Avtp_CommonHeader_GetField(avtp_pdu, field) ==
    Avtp_GetField(Avtp_CommonHeaderFieldDesc, AVTP_COMMON_HEADER_FIELD_MAX,
                  avtp_pdu, field % 256)

Avtp_CommonHeader_GetSubtype(avtp_pdu) ==
    NarrowU8(Avtp_GetField(Avtp_CommonHeaderFieldDesc, AVTP_COMMON_HEADER_FIELD_MAX,
                           avtp_pdu, AVTP_COMMON_HEADER_FIELD_SUBTYPE))

\* the H getter reading the Version descriptor
Avtp_CommonHeader_GetH_Version(avtp_pdu) ==
    NarrowU8(Avtp_GetField(Avtp_CommonHeaderFieldDesc, AVTP_COMMON_HEADER_FIELD_MAX,
                           avtp_pdu, AVTP_COMMON_HEADER_FIELD_VERSION))

Avtp_CommonHeader_GetH(avtp_pdu) ==
    NarrowU8(Avtp_GetField(Avtp_CommonHeaderFieldDesc, AVTP_COMMON_HEADER_FIELD_MAX,
                           avtp_pdu, AVTP_COMMON_HEADER_FIELD_H))

Avtp_CommonHeader_GetVersion(avtp_pdu) ==
    NarrowU8(Avtp_GetField(Avtp_CommonHeaderFieldDesc, AVTP_COMMON_HEADER_FIELD_MAX,
                           avtp_pdu, AVTP_COMMON_HEADER_FIELD_VERSION))

\* the value narrowed to 8 bits on its way to the engine
Avtp_CommonHeader_SetField_Narrow(avtp_pdu, field, value) ==
    Avtp_SetField(Avtp_CommonHeaderFieldDesc, AVTP_COMMON_HEADER_FIELD_MAX,
                  avtp_pdu, field % 256, <<0, 0, 0, value[4] % 256>>)

Avtp_CommonHeader_SetField(avtp_pdu, field, value) ==
    Avtp_SetField(Avtp_CommonHeaderFieldDesc, AVTP_COMMON_HEADER_FIELD_MAX,
                  avtp_pdu, field % 256, value)

\* the getter refusing a field id past the table
avtp_pdu_get_CheckField(p, field, val_null, cur) ==
    IF val_null \/ field >= AVTP_COMMON_HEADER_FIELD_MAX
    THEN [ret |-> -EINVAL, val |-> cur]
    ELSE [ret |-> 0, val |-> NarrowU32(Avtp_CommonHeader_GetField(p, field))]

\* val_null: the output pointer is NULL; cur: what it points to otherwise
avtp_pdu_get(p, field, val_null, cur) ==
    IF val_null THEN [ret |-> -EINVAL, val |-> cur]
    ELSE LET temp == Avtp_CommonHeader_GetField(p, field)
         IN  [ret |-> 0, val |-> NarrowU32(temp)]

avtp_pdu_set(p, field, value) ==
    Avtp_CommonHeader_SetField(p, field, WidenU32(value))

----------------------------------------------------------------------------
(* Accessor calls on one PDU header *)

\* field arguments: the three fields, ids past the table, ids the (uint8_t) cast wraps
FieldArgs == {0, 1, 2, 3, 258}

\* values that fit every field, Version and Subtype, Subtype only, no field; the
\* last one has a low half that fits and bits set above bit 31
U64Vals == { <<0, 0, 0, 1>>, <<0, 0, 0, 5>>, <<0, 0, 0, 200>>, <<0, 0, 0, 256>>,
             <<0, 1, 0, 5>> }

U32Vals == { <<0, 2>>, <<1, 0>> }

HdrInit == { <<0, 0, 0, 0>>, <<255, 255, 255, 255>>, <<4, 0, 0, 0>> }

\* what the caller's output variable holds before a call of the legacy getter
ValInit == <<43690, 21845>>

NoCall == [op |-> "none", field |-> 0, value |-> U64Zero, null |-> FALSE,
           res |-> "", code |-> 0, out |-> U64Zero]

SetField(field, value) ==
    LET r == Avtp_CommonHeader_SetField(hdr, field, value)
    IN  /\ hdr' = r.pdu
        /\ last' = [NoCall EXCEPT !.op = "SetField", !.field = field,
                                  !.value = value, !.res = r.res]
        /\ val' = ValInit

LegacySet(field, value) ==
    LET r == avtp_pdu_set(hdr, field, value)
    IN  /\ hdr' = r.pdu
        /\ last' = [NoCall EXCEPT !.op = "avtp_pdu_set", !.field = field,
                                  !.value = WidenU32(value), !.res = r.res]
        /\ val' = ValInit

GetField(field) ==
    /\ last' = [NoCall EXCEPT !.op = "GetField", !.field = field,
                              !.out = Avtp_CommonHeader_GetField(hdr, field)]
    /\ val' = ValInit
    /\ UNCHANGED hdr

GetSubtype ==
    /\ last' = [NoCall EXCEPT !.op = "GetSubtype",
                              !.field = AVTP_COMMON_HEADER_FIELD_SUBTYPE,
                              !.code = Avtp_CommonHeader_GetSubtype(hdr)]
    /\ val' = ValInit
    /\ UNCHANGED hdr

GetH ==
    /\ last' = [NoCall EXCEPT !.op = "GetH",
                              !.field = AVTP_COMMON_HEADER_FIELD_H,
                              !.code = Avtp_CommonHeader_GetH(hdr)]
    /\ val' = ValInit
    /\ UNCHANGED hdr

GetVersion ==
    /\ last' = [NoCall EXCEPT !.op = "GetVersion",
                              !.field = AVTP_COMMON_HEADER_FIELD_VERSION,
                              !.code = Avtp_CommonHeader_GetVersion(hdr)]
    /\ val' = ValInit
    /\ UNCHANGED hdr

LegacyGet(field, val_null) ==
    LET r == avtp_pdu_get(hdr, field, val_null, val)
    IN  /\ val' = r.val
        /\ last' = [NoCall EXCEPT !.op = "avtp_pdu_get", !.field = field,
                                  !.null = val_null, !.code = r.ret]
        /\ UNCHANGED hdr

----------------------------------------------------------------------------
(* examples/acf-can/linux/acf-can-listener.c                                *)
(*                                                                         *)
(* The PDU buffer is counted in cells: cell 0 holds the headers of the PDU  *)
(* (UDP encapsulation, common header, NTSCF/TSCF envelope), every further   *)
(* cell one quadlet-aligned ACF-CAN field. Each cell is marked "fresh" when *)
(* the latest recv wrote it, "stale" when an earlier recv did and "uninit"  *)
(* when none has; a decoded frame carries the mark of the cells it was      *)
(* decoded from, and a slot of the frame array that the latest conversion   *)
(* did not fill is "old".                                                   *)

MAX_ETH_PDU_SIZE == 4
MAX_CAN_FRAMES_IN_ACF == 2
MaxPdus == 2

\* 0xAABBCCDDEEFF0001
STREAM_ID == <<43707, 52445, 61183, 1>>
listener_stream_id == STREAM_ID
OtherStreamId == <<43707, 52445, 61183, 2>>

SeqNums == {5, 7}
UdpSeqNums == {<<0, 5>>, <<0, 7>>}

\* the headers a talker can put on the wire: of the listener's stream with any
\* declared number of ACF fields (the sequence number that is compared varies:
\* the control-frame one on Ethernet, the encapsulation one on UDP), of another
\* stream, of another subtype
Headers(udp) ==
    [subtype_ok : {TRUE}, sid : {STREAM_ID},
     seq : IF udp THEN {7} ELSE SeqNums,
     useq : IF udp THEN UdpSeqNums ELSE {<<0, 0>>},
     len : 0 .. MAX_ETH_PDU_SIZE - 1]
    \cup
    [subtype_ok : {TRUE}, sid : {OtherStreamId}, seq : {7},
     useq : IF udp THEN {<<0, 7>>} ELSE {<<0, 0>>}, len : {1}]
    \cup
    [subtype_ok : {FALSE}, sid : {STREAM_ID}, seq : {7},
     useq : IF udp THEN {<<0, 7>>} ELSE {<<0, 0>>}, len : {1}]

\* what the uninitialised buffer may hold in its header cell when main starts
UninitHeaders(udp) ==
    {h \in Headers(udp) : ~h.subtype_ok \/ (h.sid = STREAM_ID /\ h.seq = 7 /\ h.len = 1)}

\* the counters' values at the start of the observed window: both are 0 when
\* main starts and advance together, so they are 5 / 5 after 5 PDUs and
\* 255 / 0xFFFFFFFF after 2^32 - 1
StartCounters ==
    { [cf |-> 5, udp |-> <<0, 5>>],
      [cf |-> 255, udp |-> <<65535, 65535>>] }

Min(a, b) == IF a < b THEN a ELSE b

\* recv(fd, pdu, MAX_ETH_PDU_SIZE, 0) returning r >= 0: the first r cells are
\* overwritten, the others keep what an earlier recv (or nothing) left there
Left(mark) == IF mark = "uninit" THEN "uninit" ELSE "stale"

Received(buf, h, r) ==
    [hdr |-> IF r >= 1 THEN [h |-> h, mark |-> "fresh"]
             ELSE [buf.hdr EXCEPT !.mark = Left(@)],
     acf |-> [k \in 1 .. MAX_ETH_PDU_SIZE - 1 |->
                 IF k + 1 <= r THEN "fresh" ELSE Left(buf.acf[k])]]

\* the frame array when a recv returns: what it holds is from earlier PDUs, or
\* was never written
Aged(frames) ==
    [k \in 1 .. MAX_CAN_FRAMES_IN_ACF |-> [frames[k] EXCEPT !.mark = "old"]]

\* the mark of a frame decoded from the header cell and one ACF cell
Decoded(hmark, cmark) ==
    IF hmark = "fresh" /\ cmark = "fresh" THEN "fresh"
    ELSE IF hmark = "stale" \/ cmark = "stale" THEN "stale"
    ELSE "uninit"

\* avtp_to_can (acf-can-common.c): the count returned, the frame array after
\* the call and whether the sequence number differed from the expected one
avtp_to_can(buf, frames, variant, udp, expected_stream_id, exp_cf, exp_udp) ==
    LET h == buf.hdr.h
    IN  IF ~h.subtype_ok
        THEN [ret |-> 0, frames |-> frames, mismatch |-> FALSE,
              exp_cf |-> exp_cf, exp_udp |-> exp_udp]
        ELSE IF h.sid # expected_stream_id
        THEN [ret |-> 0, frames |-> frames, mismatch |-> FALSE,
              exp_cf |-> exp_cf, exp_udp |-> exp_udp]
        ELSE LET n == Min(h.len, MAX_CAN_FRAMES_IN_ACF)
             IN  [ret |-> n,
                  frames |-> [k \in 1 .. MAX_CAN_FRAMES_IN_ACF |->
                                 IF k <= n THEN [field |-> k, mark |-> Decoded(buf.hdr.mark, buf.acf[k])]
                                 ELSE frames[k]],
                  mismatch |-> IF udp THEN h.useq # exp_udp ELSE h.seq # exp_cf,
                  exp_cf |-> exp_cf, exp_udp |-> exp_udp]

NoPrev == [valid |-> FALSE, accepted |-> FALSE, seq |-> 0, exp_cf |-> 0, decoded |-> FALSE]

NoConv == [valid |-> FALSE, accepted |-> FALSE, sid_match |-> FALSE, seq |-> 0,
           useq |-> <<0, 0>>, len |-> 0, exp_cf |-> 0, exp_udp |-> <<0, 0>>,
           ret |-> 0, mismatch |-> FALSE]

\* lines 155-163
CreateSocket ==
    /\ pc = "socket"
    /\ \E fd_ok \in BOOLEAN :
          IF fd_ok
          THEN /\ fd_open' = TRUE
               /\ pc' = "cansetup"
               /\ UNCHANGED status
          ELSE /\ pc' = "exit"
               /\ status' = 1
               /\ UNCHANGED fd_open
    /\ UNCHANGED <<use_udp, can_variant, pdu, pdu_length, num_can_msgs,
                   exp_cf_seqnum, exp_udp_seqnum, can_frames, i, start, nrecv,
                   bus, call, prev>>

\* lines 165-167 and 200-202
SetupCan ==
    /\ pc = "cansetup"
    /\ \E can_ok \in BOOLEAN :
          IF can_ok
          THEN /\ pc' = "recv"
               /\ UNCHANGED <<fd_open, status>>
          ELSE /\ fd_open' = FALSE
               /\ status' = 1
               /\ pc' = "exit"
    /\ UNCHANGED <<use_udp, can_variant, pdu, pdu_length, num_can_msgs,
                   exp_cf_seqnum, exp_udp_seqnum, can_frames, i, start, nrecv,
                   bus, call, prev>>

\* lines 172-176: the test the loop makes on what recv returned
RecvRejected(len) == len < 0 \/ len > MAX_ETH_PDU_SIZE

\* a failed recv ending the process
RecvFail_Exit ==
    /\ pc = "recv"
    /\ pdu_length' = ToU16(-1)
    /\ pc' = "exit"
    /\ status' = 1
    /\ fd_open' = FALSE
    /\ UNCHANGED <<use_udp, can_variant, pdu, num_can_msgs,
                   exp_cf_seqnum, exp_udp_seqnum, can_frames, i, start, nrecv,
                   bus, call, prev>>

\* lines 172-176, recv fails
RecvFail ==
    /\ pc = "recv"
    /\ pdu_length' = ToU16(-1)
    /\ RecvRejected(pdu_length')
    /\ UNCHANGED <<pc, status, fd_open, use_udp, can_variant, pdu, num_can_msgs,
                   exp_cf_seqnum, exp_udp_seqnum, can_frames, i, start, nrecv,
                   bus, call, prev>>

\* the counters advanced only for a PDU that yielded frames
Convert_OnlyWhenDecoded(buf, frames, cf, udp) ==
    LET c == avtp_to_can(buf, frames, can_variant, use_udp, listener_stream_id, cf, udp)
    IN  [num |-> c.ret % 256,
         frames |-> c.frames,
         cf |-> IF c.ret > 0 THEN IncU8(c.exp_cf) ELSE c.exp_cf,
         udp |-> IF c.ret > 0 THEN IncU32(c.exp_udp) ELSE c.exp_udp,
         mismatch |-> c.mismatch]

\* the control-frame counter not advanced
Convert_CfNotIncremented(buf, frames, cf, udp) ==
    LET c == avtp_to_can(buf, frames, can_variant, use_udp, listener_stream_id, cf, udp)
    IN  [num |-> c.ret % 256,
         frames |-> c.frames,
         cf |-> c.exp_cf,
         udp |-> IncU32(c.exp_udp),
         mismatch |-> c.mismatch]

\* lines 178-181: the conversion and the counters after it
Convert(buf, frames, cf, udp) ==
    LET c == avtp_to_can(buf, frames, can_variant, use_udp, listener_stream_id, cf, udp)
    IN  [num |-> c.ret % 256,
         frames |-> c.frames,
         cf |-> IncU8(c.exp_cf),
         udp |-> IncU32(c.exp_udp),
         mismatch |-> c.mismatch]

\* lines 172-181, recv returns r cells of a datagram with header h
RecvPdu ==
    /\ pc = "recv"
    /\ nrecv < MaxPdus
    /\ \E r \in 0 .. MAX_ETH_PDU_SIZE, h \in Headers(use_udp) :
          LET buf == Received(pdu, h, r)
              c == Convert(buf, Aged(can_frames), exp_cf_seqnum, exp_udp_seqnum)
              bh == buf.hdr.h
          IN  /\ pdu_length' = ToU16(r)
              /\ ~RecvRejected(pdu_length')
              /\ pdu' = buf
              /\ num_can_msgs' = c.num
              /\ can_frames' = c.frames
              /\ exp_cf_seqnum' = c.cf
              /\ exp_udp_seqnum' = c.udp
              /\ prev' = [valid |-> call.valid, accepted |-> call.accepted,
                          seq |-> call.seq, exp_cf |-> call.exp_cf,
                          decoded |-> call.ret > 0]
              /\ call' = [valid |-> TRUE,
                          accepted |-> bh.subtype_ok /\ bh.sid = listener_stream_id,
                          sid_match |-> bh.sid = listener_stream_id,
                          seq |-> bh.seq, useq |-> bh.useq, len |-> bh.len,
                          exp_cf |-> exp_cf_seqnum, exp_udp |-> exp_udp_seqnum,
                          ret |-> c.num, mismatch |-> c.mismatch]
    /\ nrecv' = nrecv + 1
    /\ bus' = <<>>
    /\ i' = 0
    /\ pc' = "write"
    /\ UNCHANGED <<status, fd_open, use_udp, can_variant, start>>

\* a failed write leaving the write loop
WriteFrame_BreakOnFail ==
    /\ pc = "write"
    /\ i < num_can_msgs
    /\ \E ok \in BOOLEAN :
          /\ bus' = Append(bus, [index |-> i, frame |-> can_frames[i + 1],
                                 variant |-> can_variant, ok |-> ok])
          /\ i' = IF ok THEN i + 1 ELSE num_can_msgs
    /\ UNCHANGED <<pc, status, fd_open, use_udp, can_variant, pdu, pdu_length,
                   num_can_msgs, exp_cf_seqnum, exp_udp_seqnum, can_frames,
                   start, nrecv, call, prev>>

\* lines 183-195, one pass of the write loop; the write succeeds or fails
WriteFrame ==
    /\ pc = "write"
    /\ i < num_can_msgs
    /\ \E ok \in BOOLEAN :
          bus' = Append(bus, [index |-> i, frame |-> can_frames[i + 1],
                              variant |-> can_variant, ok |-> ok])
    /\ i' = i + 1
    /\ UNCHANGED <<pc, status, fd_open, use_udp, can_variant, pdu, pdu_length,
                   num_can_msgs, exp_cf_seqnum, exp_udp_seqnum, can_frames,
                   start, nrecv, call, prev>>

\* lines 183 and 196: the write loop is over, back to recv
LoopBack ==
    /\ pc = "write"
    /\ ~(i < num_can_msgs)
    /\ pc' = "recv"
    /\ UNCHANGED <<status, fd_open, use_udp, can_variant, pdu, pdu_length,
                   num_can_msgs, exp_cf_seqnum, exp_udp_seqnum, can_frames, i,
                   start, nrecv, bus, call, prev>>

----------------------------------------------------------------------------
(* Specifications *)

\* the listener idle, for the runs that exercise the header accessors
MainIdle ==
    /\ pc = "exit" /\ status = 0 /\ fd_open = FALSE
    /\ use_udp = FALSE /\ can_variant = "AVTP_CAN_CLASSIC"
    /\ pdu = [hdr |-> [h |-> [subtype_ok |-> FALSE, sid |-> STREAM_ID, seq |-> 7,
                              useq |-> <<0, 0>>, len |-> 1], mark |-> "uninit"],
              acf |-> [k \in 1 .. MAX_ETH_PDU_SIZE - 1 |-> "uninit"]]
    /\ pdu_length = 0 /\ num_can_msgs = 0
    /\ exp_cf_seqnum = 0 /\ exp_udp_seqnum = <<0, 0>>
    /\ can_frames = [k \in 1 .. MAX_CAN_FRAMES_IN_ACF |-> [field |-> k, mark |-> "old"]]
    /\ i = 0 /\ start = [cf |-> 0, udp |-> <<0, 0>>] /\ nrecv = 0
    /\ bus = <<>> /\ call = NoConv /\ prev = NoPrev

HdrIdle == hdr = <<0, 0, 0, 0>> /\ val = ValInit /\ last = NoCall

\* main after argp_parse has returned (line 139); pdu and can_frames are
\* uninitialised locals, the counters are those of the window's start
Init ==
    /\ HdrIdle
    /\ pc = "socket" /\ status = -1 /\ fd_open = FALSE
    /\ use_udp \in BOOLEAN
    /\ can_variant \in {"AVTP_CAN_CLASSIC", "AVTP_CAN_FD"}
    /\ \E h \in UninitHeaders(use_udp) :
          pdu = [hdr |-> [h |-> h, mark |-> "uninit"],
                 acf |-> [k \in 1 .. MAX_ETH_PDU_SIZE - 1 |-> "uninit"]]
    /\ pdu_length = 0 /\ num_can_msgs = 0
    /\ start \in StartCounters
    /\ exp_cf_seqnum = start.cf /\ exp_udp_seqnum = start.udp
    /\ can_frames = [k \in 1 .. MAX_CAN_FRAMES_IN_ACF |-> [field |-> k, mark |-> "old"]]
    /\ i = 0 /\ nrecv = 0
    /\ bus = <<>> /\ call = NoConv /\ prev = NoPrev

Next ==
    \/ (CreateSocket /\ UNCHANGED hdrVars)
    \/ (SetupCan /\ UNCHANGED hdrVars)
    \/ (RecvFail /\ UNCHANGED hdrVars)
    \/ (RecvPdu /\ UNCHANGED hdrVars)
    \/ (WriteFrame /\ UNCHANGED hdrVars)
    \/ (LoopBack /\ UNCHANGED hdrVars)

Spec == Init /\ [][Next]_vars

\* recv and write return, and the loop's own steps are taken
LiveSpec ==
    /\ Init /\ [][Next]_vars
    /\ WF_vars(WriteFrame /\ UNCHANGED hdrVars)
    /\ WF_vars(LoopBack /\ UNCHANGED hdrVars)

HdrInitState == hdr \in HdrInit /\ val = ValInit /\ last = NoCall /\ MainIdle

HdrNext ==
    \/ \E f \in FieldArgs, v \in U64Vals : SetField(f, v) /\ UNCHANGED mainVars
    \/ \E f \in FieldArgs, v \in U32Vals : LegacySet(f, v) /\ UNCHANGED mainVars
    \/ \E f \in FieldArgs : GetField(f) /\ UNCHANGED mainVars
    \/ (GetSubtype /\ UNCHANGED mainVars)
    \/ (GetH /\ UNCHANGED mainVars)
    \/ (GetVersion /\ UNCHANGED mainVars)
    \/ \E f \in FieldArgs, n \in BOOLEAN : LegacyGet(f, n) /\ UNCHANGED mainVars

HdrSpec == HdrInitState /\ [][HdrNext]_vars

----------------------------------------------------------------------------
(* Claims on the Common Header accessors, checked under HdrSpec *)

\* the header bits as the wire format lays them out: bits [0-15] of the quadlet
Hi16(buf) == buf[1] * 256 + buf[2]
RawSubtype(buf) == Hi16(buf) \div 256
RawH(buf) == (Hi16(buf) \div 128) % 2
RawVersion(buf) == (Hi16(buf) \div 16) % 8
RawLow20(buf) == <<buf[2] % 16, buf[3], buf[4]>>
RawField(buf, f) == IF f = 0 THEN RawSubtype(buf) ELSE IF f = 1 THEN RawH(buf) ELSE RawVersion(buf)

\* the widths the wire format gives Subtype, H and Version
WireBits == <<8, 1, 3>>

\* v < 2^bits for a uint64_t v and bits <= 16
Below(v, bits) == v[1] = 0 /\ v[2] = 0 /\ v[3] = 0 /\ v[4] < Pow2(bits)

\* C6: for Subtype (8 bits), H (1 bit) and Version (3 bits), any content of the
\* first quadlet and any value v: Avtp_CommonHeader_SetField succeeds when
\* v < 2^bits, and Avtp_CommonHeader_GetField on the buffer it leaves returns
\* exactly v; it rejects v >= 2^bits as out of range.
C6_SetGetRoundTrip ==
    (last.op = "SetField" /\ last.field \in 0 .. 2) =>
        IF Below(last.value, WireBits[last.field + 1])
        THEN /\ last.res = "Ok"
             /\ Avtp_CommonHeader_GetField(hdr, last.field) = last.value
        ELSE last.res = "ValueOutOfRange"

\* Version set to 5 in a quadlet that was all ones
C6_Witness ==
    /\ last.op = "SetField" /\ last.field = AVTP_COMMON_HEADER_FIELD_VERSION
    /\ last.value = <<0, 0, 0, 5>> /\ last.res = "Ok"
    /\ hdr = <<255, 223, 255, 255>>

\* C7: Avtp_CommonHeader_SetField and avtp_pdu_set change no bit outside the
\* span of the field they set: the other two fields and bits [12-31] are as
\* they were, and a Set that fails (field id past the table, value out of
\* range) leaves the whole buffer as it was.
C7_SetTouchesOnlyField ==
    [][ last'.op \in {"SetField", "avtp_pdu_set"} =>
          LET f == last'.field % 256
          IN  /\ (f >= AVTP_COMMON_HEADER_FIELD_MAX => last'.res # "Ok")
              /\ (last'.res # "Ok" => hdr' = hdr)
              /\ (f # AVTP_COMMON_HEADER_FIELD_SUBTYPE => RawSubtype(hdr') = RawSubtype(hdr))
              /\ (f # AVTP_COMMON_HEADER_FIELD_H => RawH(hdr') = RawH(hdr))
              /\ (f # AVTP_COMMON_HEADER_FIELD_VERSION => RawVersion(hdr') = RawVersion(hdr))
              /\ RawLow20(hdr') = RawLow20(hdr) ]_vars

\* avtp_pdu_set has set Subtype to 2 in a quadlet that was all ones
C7_Witness ==
    /\ last.op = "avtp_pdu_set" /\ last.res = "Ok"
    /\ last.field = AVTP_COMMON_HEADER_FIELD_SUBTYPE
    /\ hdr = <<2, 255, 255, 255>>

\* C8: with q the first quadlet in network byte order, GetSubtype returns
\* q >> 24, GetH returns (q >> 23) & 1 and GetVersion returns (q >> 20) & 7
\* (stated on the upper 16 bits of q: >> 8, >> 7, >> 4); the typed getters
\* agree with Avtp_CommonHeader_GetField for the same field; 0x04000000 gives
\* Subtype 4, H 0, Version 0.
C8_TypedGetters ==
    /\ (last.op = "GetSubtype" => last.code = RawSubtype(hdr))
    /\ (last.op = "GetH" => last.code = RawH(hdr))
    /\ (last.op = "GetVersion" => last.code = RawVersion(hdr))
    /\ (last.op \in {"GetSubtype", "GetH", "GetVersion"} =>
            /\ Avtp_CommonHeader_GetField(hdr, last.field) = <<0, 0, 0, last.code>>
            /\ (hdr = <<4, 0, 0, 0>> =>
                    last.code = IF last.op = "GetSubtype" THEN 4 ELSE 0))
    /\ (last.op = "GetField" /\ last.field \in 0 .. 2 =>
            last.out = <<0, 0, 0, RawField(hdr, last.field)>>)

\* the H getter applied to a quadlet with H = 1 and Version = 0
C8_Witness ==
    /\ last.op = "GetH" /\ last.code = 1
    /\ RawVersion(hdr) = 0 /\ RawSubtype(hdr) = 4

\* C9: avtp_pdu_get with a null output pointer returns -EINVAL and stores
\* nothing; with an output pointer it returns 0 for every field argument, also
\* one past the table, and stores the low 32 bits of what
\* Avtp_CommonHeader_GetField returns; it never changes the PDU.
C9_LegacyGet ==
    [][ last'.op = "avtp_pdu_get" =>
          /\ hdr' = hdr
          /\ IF last'.null
             THEN last'.code = -EINVAL /\ val' = val
             ELSE /\ last'.code = 0
                  /\ val' = NarrowU32(Avtp_CommonHeader_GetField(hdr, last'.field)) ]_vars

\* the getter called with field id AVTP_COMMON_HEADER_FIELD_MAX and an output pointer
C9_Witness ==
    /\ last.op = "avtp_pdu_get" /\ ~last.null
    /\ last.field = AVTP_COMMON_HEADER_FIELD_MAX
    /\ last.code = 0 /\ val = <<0, 0>>

----------------------------------------------------------------------------
(* Claims on the listener, checked under Spec (C5 under LiveSpec) *)

\* w + n for a uint32_t w and a small n
AddU32(w, n) ==
    LET t == w[2] + n
    IN  <<(w[1] + (t \div 65536)) % 65536, t % 65536>>

\* C1 as claimed: a PDU of another stream yields no CAN frame and leaves both
\* expected-sequence counters, once it has been handled, as they were when it
\* was received.
C1_OtherStreamLeavesCounters ==
    (call.valid /\ ~call.sid_match) =>
        /\ call.ret = 0 /\ bus = <<>>
        /\ exp_cf_seqnum = call.exp_cf
        /\ exp_udp_seqnum = call.exp_udp

\* C2: each counter is changed exactly once per received PDU: after n PDUs and
\* any number of failed receives exp_cf_seqnum is its start value plus n
\* mod 256 and exp_udp_seqnum its start value plus n mod 2^32; a step that
\* receives a PDU changes both, any other step (a failed recv among them)
\* changes neither.
C2_CountersOncePerPdu ==
    /\ [](/\ exp_cf_seqnum = (start.cf + nrecv) % 256
          /\ exp_udp_seqnum = AddU32(start.udp, nrecv))
    /\ [][ /\ (nrecv' = nrecv =>
                  exp_cf_seqnum' = exp_cf_seqnum /\ exp_udp_seqnum' = exp_udp_seqnum)
           /\ (nrecv' # nrecv =>
                  /\ nrecv' = nrecv + 1
                  /\ exp_cf_seqnum' # exp_cf_seqnum
                  /\ exp_udp_seqnum' # exp_udp_seqnum) ]_vars

\* two PDUs received from 255 / 0xFFFFFFFF, a failed recv after them: both wrapped
C2_Witness ==
    /\ nrecv = 2 /\ start.cf = 255 /\ start.udp = <<65535, 65535>>
    /\ exp_cf_seqnum = 1 /\ exp_udp_seqnum = <<0, 1>>
    /\ pdu_length = 65535

C4_OneWritePerFrame ==
    /\ num_can_msgs \in 0 .. MAX_CAN_FRAMES_IN_ACF
    /\ Len(bus) <= num_can_msgs
    /\ \A j \in 1 .. Len(bus) :
          /\ bus[j].index = j - 1
          /\ bus[j].frame = can_frames[j]
          /\ bus[j].frame.field = j
    /\ (pc = "write" => Len(bus) = i)
    /\ (pc = "recv" /\ call.valid => Len(bus) = num_can_msgs /\ num_can_msgs = call.ret)

\* the write of frame 0 failed and frame 1 was written all the same
C4_Witness ==
    /\ pc = "recv" /\ num_can_msgs = 2 /\ Len(bus) = 2
    /\ ~bus[1].ok /\ bus[2].ok /\ bus[2].index = 1

\* the process has not ended, or has ended from startup
StartupExit ==
    /\ status \in {-1, 1}
    /\ (pc = "exit" <=> status = 1)
    /\ (pc = "exit" => ~fd_open /\ nrecv = 0 /\ ~call.valid /\ pdu_length = 0)
    /\ (pc \in {"cansetup", "recv", "write"} => fd_open)

\* C5: the process ends only from startup, with status 1, when the transport
\* socket cannot be created or the CAN socket cannot be set up (attempted only
\* with the transport socket open, which is closed when it fails); once in the
\* receive loop no failed recv, no conversion returning 0 and no failed write
\* ends it, and the loop gets back to recv.
C5_OnlyStartupIsFatal ==
    /\ []StartupExit
    /\ [][ /\ (pc \in {"recv", "write"} => pc' \in {"recv", "write"})
           /\ (pc' = "exit" => pc \in {"socket", "cansetup"}) ]_vars
    /\ ((pc = "write") ~> (pc = "recv"))

\* back at recv after a PDU that yielded nothing, a PDU with a failed write
\* and a failed recv
C5_Witness ==
    /\ pc = "recv" /\ status = -1 /\ fd_open
    /\ prev.valid /\ ~prev.decoded
    /\ Len(bus) >= 1 /\ ~bus[1].ok
    /\ pdu_length = 65535

\* C10 as claimed: a PDU shorter than the length it declares is rejected, so
\* no CAN frame written to the bus was decoded from what an earlier PDU left
\* in the buffer: not after a datagram cut short, not after a recv of length 0.
C10_NoFrameFromEarlierPdu ==
    \A j \in 1 .. Len(bus) : bus[j].frame.mark # "stale"

====
